---- MODULE Spec2Model ----
(***************************************************************************)
(* pyrax/cloudmonitoring.py: the Cloud Monitoring client.                  *)
(*                                                                         *)
(* The caller invokes one operation of the manager / client / entity at a  *)
(* time (the library is synchronous and single threaded).  An operation    *)
(* validates and assembles a request body, hands requests to the external  *)
(* HTTP transport (self.api.method_get / method_post / method_put) and     *)
(* turns the transport's answers into the value or the exception the       *)
(* caller sees.  The transport is the environment: every request either    *)
(* raises or returns a (response metadata, decoded body) pair.             *)
(*                                                                         *)
(* Python values are records [kind, n, tag]:                               *)
(*   kind  "none" | "bool" | "int" | "str" | "dict" | "list"               *)
(*   n     the integer itself (int), 0/1 (bool), the length len() reports  *)
(*         (str, dict, list)                                               *)
(*   tag   what tells two values of one kind and length apart: the text    *)
(*         of a short string, the character class of a long one            *)
(***************************************************************************)
EXTENDS Integers, Sequences, FiniteSets, TLC

VARIABLES
    pc,          \* "idle", the transport call the running operation waits in, or "done"
    op,          \* the operation invoked last and its arguments
    log,         \* requests handed to the transport by the running operation, in order
    replies,     \* the transport's answers to those requests, in order: returned or raised
    built,       \* what the body builder of the running operation gave: a body or an exception
    created,     \* uris of the objects the running operation's requests created on the server
    outcome,     \* what the caller got: [status, err, value]
    serverItems, \* the collection the server lists, fixed while listings are compared
    listed       \* result of _list per response form since serverItems was fixed

vars == <<pc, op, log, replies, built, created, outcome, serverItems, listed>>

----------------------------------------------------------------------------
(* Program constants *)

LabelMin == 1
LabelMax == 255
IpAddressesMax == 64
MetadataMax == 256
DetailsMax == 256
CheckTypeMin == 1
CheckTypeMax == 25
PeriodMin == 30
PeriodMax == 1800
TimeoutMin == 2
TimeoutMax == 1800
TargetAliasMin == 1
TargetAliasMax == 64
TargetHostnameMin == 1
TargetHostnameMax == 256
CriteriaMin == 1
CriteriaMax == 16384
AgentIdMin == 1
AgentIdMax == 255

(* Bounds of the model *)

\* A call departs from the base call of its operation in at most this many arguments.
MaxDeviations == 2
\* The server's collection holds at most this many objects when it is listed.
MaxListLen == 2

----------------------------------------------------------------------------
(* Python values *)

None == [kind |-> "none", n |-> 0, tag |-> ""]
PyTrue == [kind |-> "bool", n |-> 1, tag |-> ""]
PyFalse == [kind |-> "bool", n |-> 0, tag |-> ""]
PyInt(i) == [kind |-> "int", n |-> i, tag |-> ""]
\* a string of n characters, all of them matching [-.\w]
Str(n) == [kind |-> "str", n |-> n, tag |-> "word"]
\* a string of n characters whose tag is its text or its character class
StrOf(t, n) == [kind |-> "str", n |-> n, tag |-> t]
Dict(n) == [kind |-> "dict", n |-> n, tag |-> ""]
DictOf(t, n) == [kind |-> "dict", n |-> n, tag |-> t]
List(n) == [kind |-> "list", n |-> n, tag |-> ""]

\* len(v) raises TypeError unless v is sized
HasLen(v) == v.kind \in {"str", "dict", "list"}
PyLen(v) == v.n

\* bool(v)
Truthy(v) ==
    CASE v.kind = "none" -> FALSE
      [] v.kind = "bool" -> v.n = 1
      [] v.kind = "int" -> v.n # 0
      [] OTHER -> v.n > 0

\* lo <= len(v) <= hi
LenBetween(v, lo, hi) == lo <= PyLen(v) /\ PyLen(v) <= hi

\* AGENT_ID_PATTERN.match(s) for a string s: ^[-\.\w]{1,255}$ .  "$" also
\* matches just before a trailing newline, so a string of word characters
\* followed by one "\n" (tag "word_nl") matches when its other characters do.
AgentIdMatches(s) ==
    \/ s.tag = "word" /\ AgentIdMin <= s.n /\ s.n <= AgentIdMax
    \/ s.tag = "word_nl" /\ AgentIdMin <= s.n - 1 /\ s.n - 1 <= AgentIdMax

\* needle in haystack, for the short strings whose tag is their text
Contains(haystack, needle) == haystack.tag = needle

----------------------------------------------------------------------------
(* Results of a body builder: the body, or the exception raised *)

Ok(body) == [err |-> "", body |-> body]
Raise(e) == [err |-> e, body |-> <<>>]

----------------------------------------------------------------------------
(* CloudMonitoringClient: the body builders *)

\* _create_body: the dict required to create a new entity
_create_body(label, agent_id, ip_addresses, metadata) ==
    IF ~HasLen(label) THEN Raise("TypeError")
    ELSE IF ~LenBetween(label, LabelMin, LabelMax) THEN Raise("InvalidRange")
    ELSE IF ip_addresses # None /\ ~HasLen(ip_addresses) THEN Raise("TypeError")
    ELSE IF ip_addresses # None /\ PyLen(ip_addresses) > IpAddressesMax
        THEN Raise("InvalidRange")
    ELSE IF metadata # None /\ ~HasLen(metadata) THEN Raise("TypeError")
    ELSE IF metadata # None /\ PyLen(metadata) > MetadataMax THEN Raise("InvalidSize")
    ELSE LET ips == IF ip_addresses = None THEN Dict(0) ELSE ip_addresses
             md == IF metadata = None THEN Dict(0) ELSE metadata
         IN  IF agent_id # None
             THEN IF agent_id.kind # "str" THEN Raise("TypeError")
                  ELSE IF ~AgentIdMatches(agent_id) THEN Raise("InvalidAgentID")
                  ELSE Ok([id |-> agent_id, label |-> label,
                           ip_addresses |-> ips, metadata |-> md])
             ELSE Ok([label |-> label, ip_addresses |-> ips, metadata |-> md])

\* _create_check_body from "if monitoring_zones_poll is None" on: the remote and
\* the local variant of the body.  a holds the arguments under their names.
CheckBodyFrom(a) ==
    LET lbl == IF a.label = None THEN Str(0) ELSE a.label
        det == IF a.details = None THEN Dict(0) ELSE a.details
        mzp == IF a.monitoring_zones_poll = None THEN List(0)
               ELSE a.monitoring_zones_poll
    IN  IF a.remote = PyTrue
        THEN IF a.target_alias # None /\ ~HasLen(a.target_alias) THEN Raise("TypeError")
             ELSE IF a.target_alias # None
                     /\ ~LenBetween(a.target_alias, TargetAliasMin, TargetAliasMax)
                 THEN Raise("InvalidRange")
             ELSE IF a.target_hostname # None /\ ~HasLen(a.target_hostname)
                 THEN Raise("TypeError")
             ELSE IF a.target_hostname # None
                     /\ ~LenBetween(a.target_hostname, TargetHostnameMin,
                                    TargetHostnameMax)
                 THEN Raise("InvalidRange")
             ELSE Ok([label |-> lbl, type |-> a.check_type, details |-> det,
                      monitoring_zones_poll |-> mzp, timeout |-> a.timeout,
                      period |-> a.period,
                      target_alias |-> IF a.target_alias = None THEN Str(0)
                                       ELSE a.target_alias,
                      target_hostname |-> IF a.target_hostname = None THEN Str(0)
                                          ELSE a.target_hostname,
                      target_resolver |-> IF a.target_resolver = None THEN Str(0)
                                          ELSE a.target_resolver])
        ELSE Ok([label |-> lbl, type |-> a.check_type, details |-> det,
                 monitoring_zones_poll |-> mzp, timeout |-> a.timeout,
                 period |-> a.period, target_alias |-> StrOf("default", 7)])

\* _create_check_body: the dict required to create or modify a check.  a holds the
\* arguments under their names: check_type, label, details, disabled, metadata,
\* period, timeout, remote, monitoring_zones_poll, target_alias, target_hostname,
\* target_resolver.
_create_check_body(a) ==
    IF ~HasLen(a.check_type) THEN Raise("TypeError")
    ELSE IF ~LenBetween(a.check_type, CheckTypeMin, CheckTypeMax)
        THEN Raise("InvalidRange")
    ELSE IF a.details # None /\ ~HasLen(a.details) THEN Raise("TypeError")
    ELSE IF a.details # None /\ PyLen(a.details) > DetailsMax THEN Raise("InvalidSize")
    ELSE IF a.label # None /\ ~HasLen(a.label) THEN Raise("TypeError")
    ELSE IF a.label # None /\ ~LenBetween(a.label, LabelMin, LabelMax)
        THEN Raise("InvalidRange")
    ELSE IF a.metadata # None /\ ~HasLen(a.metadata) THEN Raise("TypeError")
    ELSE IF a.metadata # None /\ PyLen(a.metadata) > MetadataMax
        THEN Raise("InvalidSize")
    ELSE IF ~HasLen(a.period) THEN Raise("TypeError")
    ELSE IF ~LenBetween(a.period, PeriodMin, PeriodMax) THEN Raise("InvalidRange")
    ELSE IF ~HasLen(a.timeout) THEN Raise("TypeError")
    ELSE IF ~LenBetween(a.timeout, TimeoutMin, TimeoutMax) THEN Raise("InvalidRange")
    ELSE CheckBodyFrom(a)

\* _create_alarm_body: the dict required to create or modify an alarm
_create_alarm_body(check_id, notification_plan_id, criteria, disabled, label, metadata) ==
    IF criteria # None /\ ~HasLen(criteria) THEN Raise("TypeError")
    ELSE IF criteria # None /\ ~LenBetween(criteria, CriteriaMin, CriteriaMax)
        THEN Raise("InvalidRange")
    ELSE IF label # None /\ ~HasLen(label) THEN Raise("TypeError")
    ELSE IF label # None /\ ~LenBetween(label, LabelMin, LabelMax)
        THEN Raise("InvalidRange")
    ELSE IF metadata # None /\ ~HasLen(metadata) THEN Raise("TypeError")
    ELSE IF metadata # None /\ PyLen(metadata) > MetadataMax THEN Raise("InvalidSize")
    ELSE Ok([label |-> IF label = None THEN Str(0) ELSE label,
             check_id |-> check_id,
             criteria |-> IF criteria = None THEN Str(0) ELSE criteria,
             notification_plan_id |-> notification_plan_id,
             metadata |-> IF metadata = None THEN Dict(0) ELSE metadata])

\* _create_notification_plan_body: the dict required to create a notification plan
_create_notification_plan_body(label, critical_state, ok_state, warning_state) ==
    IF ~HasLen(label) THEN Raise("TypeError")
    ELSE IF ~LenBetween(label, LabelMin, LabelMax) THEN Raise("InvalidRange")
    ELSE Ok([label |-> label,
             warning_state |-> IF warning_state = None THEN List(0) ELSE warning_state,
             ok_state |-> IF ok_state = None THEN List(0) ELSE ok_state,
             critical_state |-> IF critical_state = None THEN List(0)
                                ELSE critical_state])

\* the test of _create_notification_body:
\*     "webhook" or "email" not in notification_type
\* Python's "or" yields its left operand when that is truthy, and the literal
\* "webhook" is a non-empty string; the membership test is the right operand.
NotificationTypeRejected(notification_type) ==
    \/ Truthy(StrOf("webhook", 7))
    \/ ~Contains(notification_type, "email")

\* _create_notification_body: the dict required to create a notification
_create_notification_body(details, label, notification_type) ==
    IF ~HasLen(details) THEN Raise("TypeError")
    ELSE IF PyLen(details) > DetailsMax THEN Raise("InvalidSize")
    ELSE IF ~HasLen(label) THEN Raise("TypeError")
    ELSE IF ~LenBetween(label, LabelMin, LabelMax) THEN Raise("InvalidRange")
    ELSE IF NotificationTypeRejected(notification_type)
        THEN Raise("InvalidNotificationType")
    ELSE Ok([label |-> label, type |-> notification_type, details |-> details])

\* _create_agent_token_body: the dict required to create an agent token
_create_agent_token_body(label) ==
    Ok([label |-> IF label = None THEN Str(0) ELSE label])

----------------------------------------------------------------------------
(* Requests, uris and the resources the manager works on *)

\* a uri is the sequence of its path segments: /entities/en1/checks
Request(method, uri, body) == [method |-> method, uri |-> uri, body |-> body]

\* "%s/%s" % (uri, id)
Join(uri, id) == Append(uri, id)

\* the entity a call is made on, as last fetched from the server
Entity(managed) ==
    [id |-> "en1", label |-> Str(12), agent_id |-> Str(8),
     ip_addresses |-> Dict(2), metadata |-> Dict(3), managed |-> managed]

\* the check a call is made on, as last fetched from the server
Check(remote) ==
    [id |-> "ch1", check_type |-> Str(11), label |-> Str(12), details |-> Dict(1),
     disabled |-> PyFalse, metadata |-> Dict(3), period |-> PyInt(60),
     timeout |-> PyInt(10), remote |-> remote, monitoring_zones_poll |-> List(1),
     target_alias |-> Str(5), target_hostname |-> Str(9), target_resolver |-> Str(4)]

\* x if the caller supplied it, else the resource's current value
OrCurrent(x, current) == IF x = None THEN current ELSE x

----------------------------------------------------------------------------
(* CloudMonitoringManager and CloudMonitoringEntity: the update requests *)

\* update_entity: the PUT it hands to the transport
update_entity(entity, label, agent_id, ip_addresses, metadata) ==
    Request("PUT", <<"entities", entity.id>>,
            [label |-> OrCurrent(label, entity.label),
             agent_id |-> OrCurrent(agent_id, entity.agent_id),
             ip_addresses |-> OrCurrent(ip_addresses, entity.ip_addresses),
             metadata |-> OrCurrent(metadata, entity.metadata)])

\* mutant: the managed flag is not consulted
Entity_update_unmanaged(self, label, agent_id, ip_addresses, metadata) ==
    update_entity(self, label, agent_id, ip_addresses, metadata)

\* CloudMonitoringEntity.update: which fields it passes on to update_entity
Entity_update(self, label, agent_id, ip_addresses, metadata) ==
    IF self.managed = PyFalse
    THEN update_entity(self, label, agent_id, ip_addresses, metadata)
    ELSE update_entity(self, None, agent_id, None, metadata)

\* update_check: the PUT it hands to the transport.  a holds the arguments under
\* their names.
update_check(entity, check, a) ==
    LET common == [label |-> OrCurrent(a.label, check.label),
                   type |-> OrCurrent(a.check_type, check.check_type),
                   details |-> OrCurrent(a.details, check.details),
                   monitoring_zones_poll |->
                       OrCurrent(a.monitoring_zones_poll, check.monitoring_zones_poll),
                   timeout |-> OrCurrent(a.timeout, check.timeout),
                   period |-> OrCurrent(a.period, check.period)]
        targets == [target_alias |-> OrCurrent(a.target_alias, check.target_alias),
                    target_hostname |->
                        OrCurrent(a.target_hostname, check.target_hostname),
                    target_resolver |->
                        OrCurrent(a.target_resolver, check.target_resolver)]
    IN  Request("PUT", <<"entities", entity.id, "checks", check.id>>,
                IF OrCurrent(a.remote, check.remote) = PyTrue
                THEN common @@ targets
                ELSE common)

----------------------------------------------------------------------------
(* What a call returns *)

NoValue == [kind |-> "nothing"]
RetNone == [kind |-> "None"]
Raw(body) == [kind |-> "raw", body |-> body]
\* resource_class(manager, info, loaded=...); loaded is "default" when not passed
Resource(info, loaded) == [kind |-> "resource", info |-> info, loaded |-> loaded]
ListOf(resources) == [kind |-> "list", items |-> resources]

Running == [status |-> "running", err |-> "", value |-> NoValue]
Returned(v) == [status |-> "returned", err |-> "", value |-> v]
Raised(e) == [status |-> "raised", err |-> e, value |-> NoValue]

----------------------------------------------------------------------------
(* CloudMonitoringManager: _list, _get, _create *)

\* decoded response bodies: a JSON array, or a JSON object as its (key, value) pairs
ListBody(items) == [kind |-> "list", items |-> items, pairs |-> <<>>]
DictBody(pairs) == [kind |-> "dict", items |-> <<>>, pairs |-> pairs]

HasKey(d, k) == \E i \in 1..Len(d.pairs) : d.pairs[i].k = k
\* d[k]: the value, or KeyError
Subscript(d, k) ==
    IF HasKey(d, k)
    THEN Ok(d.pairs[CHOOSE i \in 1..Len(d.pairs) : d.pairs[i].k = k].v)
    ELSE Raise("KeyError")

\* a key of a decoded JSON object, as the Python string iteration yields
KeyLen(k) == CASE k = "values" -> 6 [] k = "metadata" -> 8 [] k = "error" -> 5 [] OTHER -> 1
Key(k) == IF k = "" THEN Str(0) ELSE StrOf(k, KeyLen(k))

\* mutant: the envelope is not unwrapped
Unwrap_never(body) == Ok(body)

\* _list: if isinstance(data, dict): try: data = data["values"]  except KeyError: pass
Unwrap(body) ==
    IF body.kind = "dict"
    THEN IF Subscript(body, "values").err = "KeyError" THEN Ok(body)
         ELSE Subscript(body, "values")
    ELSE Ok(body)

\* for res in data: the elements of a list, the keys of a dict
Iterate(data) ==
    IF data.kind = "list" THEN data.items
    ELSE [i \in 1..Len(data.pairs) |-> Key(data.pairs[i].k)]

RECURSIVE Build(_, _)
\* [obj_class(self, res, loaded=False) for res in data if res]
Build(data, i) ==
    IF i > Len(data) THEN <<>>
    ELSE IF Truthy(data[i]) THEN <<Resource(data[i], "False")>> \o Build(data, i + 1)
    ELSE Build(data, i + 1)

\* _list: the request it issues
_list_request(uri, body) ==
    IF Truthy(body) THEN Request("POST", uri, body) ELSE Request("GET", uri, None)

\* _list: what it returns, or raises, for the decoded response body
_list(body) ==
    IF Unwrap(body).err # "" THEN Raised(Unwrap(body).err)
    ELSE Returned(ListOf(Build(Iterate(Unwrap(body).body), 1)))

\* _get: what it returns for the decoded response body
_get(body) == Resource(body, "True")

\* _create: the POST
_create_post(uri, body) == Request("POST", uri, body)

\* mutant: the follow-up GET goes to the collection uri
_create_get_collection(uri, resp) == Request("GET", uri, None)

\* mutant: the follow-up GET uses a fixed identifier, not the one of the response
_create_get_stale(uri, resp) == Request("GET", Join(uri, "ob1"), None)

\* _create: the follow-up GET, from the POST's response metadata
_create_get(uri, resp) == Request("GET", Join(uri, resp["x-object-id"]), None)

\* _create: what it returns for the decoded body of the follow-up GET
_create_result(return_none, return_raw, body) ==
    IF Truthy(return_none) THEN RetNone
    ELSE IF Truthy(return_raw) THEN Raw(body)
    ELSE Resource(body, "default")

----------------------------------------------------------------------------
(* The calls the caller makes.  Each operation has a base call and, per    *)
(* argument, the other values the caller may pass: None, and values on     *)
(* both sides of every limit the code tests.  A call departs from the      *)
(* base call in at most MaxDeviations arguments.                           *)

\* a keyword argument the caller does not pass at all
Absent == [kind |-> "absent", n |-> 0, tag |-> ""]

Labels == <<None, Str(0), Str(LabelMin), Str(LabelMax), Str(LabelMax + 1)>>
Metadatas == <<Dict(MetadataMax), Dict(MetadataMax + 1)>>

\* create (entity): the base call passes a label only
CreateBase ==
    [label |-> Str(12), agent_id |-> None, ip_addresses |-> None, metadata |-> None,
     return_none |-> PyFalse, return_raw |-> PyFalse]
CreateAlts ==
    [label |-> Labels,
     agent_id |-> <<Str(0), Str(AgentIdMin), Str(AgentIdMax), Str(AgentIdMax + 1),
                    StrOf("word_nl", AgentIdMax + 1), StrOf("word_nl", AgentIdMax + 2),
                    StrOf("other", 5)>>,
     ip_addresses |-> <<Dict(IpAddressesMax), Dict(IpAddressesMax + 1)>>,
     metadata |-> Metadatas,
     return_none |-> <<PyTrue>>, return_raw |-> <<PyTrue>>]

\* create_check: the base call is one the code accepts, so its period and timeout
\* are sized values (the code takes len(period) and len(timeout))
CreateCheckBase ==
    [check_type |-> Str(11), label |-> Str(12), details |-> None, disabled |-> PyFalse,
     metadata |-> None, period |-> Str(60), timeout |-> Str(10), remote |-> PyFalse,
     monitoring_zones_poll |-> None, target_alias |-> None, target_hostname |-> None,
     target_resolver |-> None, return_none |-> PyFalse, return_raw |-> PyFalse]
CreateCheckAlts ==
    [check_type |-> <<Str(CheckTypeMin - 1), Str(CheckTypeMin), Str(CheckTypeMax),
                      Str(CheckTypeMax + 1)>>,
     label |-> Labels,
     details |-> <<Dict(DetailsMax), Dict(DetailsMax + 1)>>,
     disabled |-> <<PyTrue>>,
     metadata |-> Metadatas,
     period |-> <<None, PyInt(PeriodMin - 1), PyInt(PeriodMin), PyInt(PeriodMax),
                  PyInt(PeriodMax + 1), Str(PeriodMin - 1), Str(PeriodMin),
                  Str(PeriodMax), Str(PeriodMax + 1)>>,
     timeout |-> <<None, PyInt(TimeoutMin - 1), PyInt(TimeoutMin), PyInt(TimeoutMax),
                   PyInt(TimeoutMax + 1), Str(TimeoutMin - 1), Str(TimeoutMin),
                   Str(TimeoutMax), Str(TimeoutMax + 1)>>,
     remote |-> <<PyTrue>>,
     monitoring_zones_poll |-> <<List(1)>>,
     target_alias |-> <<Str(TargetAliasMin - 1), Str(TargetAliasMin),
                        Str(TargetAliasMax), Str(TargetAliasMax + 1)>>,
     target_hostname |-> <<Str(TargetHostnameMin - 1), Str(TargetHostnameMin),
                           Str(TargetHostnameMax), Str(TargetHostnameMax + 1)>>,
     target_resolver |-> <<Str(4)>>,
     return_none |-> <<PyTrue>>, return_raw |-> <<PyTrue>>]

CreateAlarmBase ==
    [check_id |-> StrOf("ch1", 3), notification_plan_id |-> StrOf("np1", 3),
     criteria |-> None, disabled |-> PyFalse, label |-> None, metadata |-> None,
     return_none |-> Absent, return_raw |-> Absent]
CreateAlarmAlts ==
    [check_id |-> <<>>, notification_plan_id |-> <<>>,
     criteria |-> <<Str(CriteriaMin - 1), Str(CriteriaMin), Str(CriteriaMax),
                    Str(CriteriaMax + 1)>>,
     disabled |-> <<PyTrue>>,
     label |-> <<Str(0), Str(LabelMin), Str(LabelMax), Str(LabelMax + 1)>>,
     metadata |-> Metadatas,
     return_none |-> <<PyTrue>>, return_raw |-> <<PyTrue>>]

CreateNotificationPlanBase ==
    [label |-> Str(12), critical_state |-> None, ok_state |-> None,
     warning_state |-> None, return_none |-> Absent, return_raw |-> Absent]
CreateNotificationPlanAlts ==
    [label |-> Labels, critical_state |-> <<List(1)>>, ok_state |-> <<List(1)>>,
     warning_state |-> <<List(1)>>,
     return_none |-> <<PyTrue>>, return_raw |-> <<PyTrue>>]

CreateNotificationBase ==
    [details |-> Dict(1), label |-> Str(12), notification_type |-> StrOf("email", 5),
     return_none |-> Absent, return_raw |-> Absent]
CreateNotificationAlts ==
    [details |-> <<None, Dict(DetailsMax), Dict(DetailsMax + 1)>>,
     label |-> Labels,
     notification_type |-> <<StrOf("webhook", 7), StrOf("sms", 3), None>>,
     return_none |-> <<PyTrue>>, return_raw |-> <<PyTrue>>]

CreateAgentTokenBase ==
    [label |-> None, return_none |-> Absent, return_raw |-> Absent]
CreateAgentTokenAlts ==
    [label |-> <<Str(0), Str(LabelMin), Str(LabelMax), Str(LabelMax + 1)>>,
     return_none |-> <<PyTrue>>, return_raw |-> <<PyTrue>>]

\* update of an entity: the base call supplies nothing, on a managed entity
UpdateEntityBase ==
    [managed |-> PyTrue, label |-> None, agent_id |-> None, ip_addresses |-> None,
     metadata |-> None]
UpdateEntityAlts ==
    [managed |-> <<PyFalse, None>>,
     label |-> <<Str(0), Str(LabelMin), Str(LabelMax), Str(LabelMax + 1)>>,
     agent_id |-> <<Str(AgentIdMin), Str(AgentIdMax + 1), StrOf("other", 5)>>,
     ip_addresses |-> <<Dict(0), Dict(IpAddressesMax), Dict(IpAddressesMax + 1)>>,
     metadata |-> <<Dict(0), Dict(MetadataMax), Dict(MetadataMax + 1)>>]

\* update_check: the base call supplies nothing, on a check that is not remote
UpdateCheckBase ==
    [check_remote |-> PyFalse, check_type |-> None, label |-> None, details |-> None,
     disabled |-> None, metadata |-> None, period |-> None, timeout |-> None,
     remote |-> None, monitoring_zones_poll |-> None, target_alias |-> None,
     target_hostname |-> None, target_resolver |-> None]
UpdateCheckAlts ==
    [check_remote |-> <<PyTrue>>,
     check_type |-> <<Str(CheckTypeMin), Str(CheckTypeMax + 1)>>,
     label |-> <<Str(0), Str(LabelMin), Str(LabelMax + 1)>>,
     details |-> <<Dict(0), Dict(DetailsMax + 1)>>,
     disabled |-> <<PyTrue>>,
     metadata |-> <<Dict(0), Dict(MetadataMax + 1)>>,
     period |-> <<PyInt(PeriodMin - 1), PyInt(PeriodMin), PyInt(PeriodMax + 1)>>,
     timeout |-> <<PyInt(TimeoutMin - 1), PyInt(TimeoutMin), PyInt(TimeoutMax + 1)>>,
     remote |-> <<PyTrue, PyFalse>>,
     monitoring_zones_poll |-> <<List(0), List(2)>>,
     target_alias |-> <<Str(TargetAliasMin), Str(TargetAliasMax + 1)>>,
     target_hostname |-> <<Str(TargetHostnameMin), Str(TargetHostnameMax + 1)>>,
     target_resolver |-> <<Str(7)>>]

\* the longest list of other values among the arguments
MostAlts(alts) ==
    CHOOSE m \in 0..16 :
        /\ \A n \in DOMAIN alts : Len(alts[n]) <= m
        /\ \E n \in DOMAIN alts : Len(alts[n]) = m

\* the calls of an operation: the base call with at most MaxDeviations arguments
\* replaced by one of their other values
Calls(base, alts) ==
    UNION { { [n \in DOMAIN base |-> IF n \in S THEN alts[n][c[n]] ELSE base[n]] :
                c \in { d \in [S -> 1..MostAlts(alts)] :
                          \A n \in S : d[n] <= Len(alts[n]) } } :
            S \in { T \in SUBSET (DOMAIN base) : Cardinality(T) <= MaxDeviations } }

CreateCalls == Calls(CreateBase, CreateAlts)
CreateCheckCalls == Calls(CreateCheckBase, CreateCheckAlts)
CreateAlarmCalls == Calls(CreateAlarmBase, CreateAlarmAlts)
CreateNotificationPlanCalls == Calls(CreateNotificationPlanBase, CreateNotificationPlanAlts)
CreateNotificationCalls == Calls(CreateNotificationBase, CreateNotificationAlts)
CreateAgentTokenCalls == Calls(CreateAgentTokenBase, CreateAgentTokenAlts)
UpdateEntityCalls == Calls(UpdateEntityBase, UpdateEntityAlts)
UpdateCheckCalls == Calls(UpdateCheckBase, UpdateCheckAlts)

----------------------------------------------------------------------------
(* CloudMonitoringManager: the create operations, up to their call of      *)
(* _create.  Each yields what its call of the body builder gives: the      *)
(* body, or the exception raised.                                          *)

\* return_none / return_raw passed to an operation that takes them only in **kwargs
\* and hands **kwargs to its body builder, which declares neither: TypeError
Undeclared(return_none, return_raw) == return_none # Absent \/ return_raw # Absent

\* "return self._create(uri, body, return_none=return_none, return_raw=return_raw)"
\* in a function that has no such names: NameError once the body is built
UndefinedNames(v) == IF v.err # "" THEN v ELSE Raise("NameError")

\* BaseManager.create, for the entity manager
create(label, agent_id, ip_addresses, metadata) ==
    _create_body(label, agent_id, ip_addresses, metadata)

create_check(a) == _create_check_body(a)

create_alarm(a) ==
    IF Undeclared(a.return_none, a.return_raw) THEN Raise("TypeError")
    ELSE _create_alarm_body(a.check_id, a.notification_plan_id, a.criteria, a.disabled,
                            a.label, a.metadata)

create_notification_plan(a) ==
    IF Undeclared(a.return_none, a.return_raw) THEN Raise("TypeError")
    ELSE _create_notification_plan_body(a.label, a.critical_state, a.ok_state,
                                        a.warning_state)

create_notification(details, label, notification_type, return_none, return_raw) ==
    IF Undeclared(return_none, return_raw) THEN Raise("TypeError")
    ELSE _create_notification_body(details, label, notification_type)

create_agent_token(label, return_none, return_raw) ==
    IF Undeclared(return_none, return_raw) THEN Raise("TypeError")
    ELSE _create_agent_token_body(label)

----------------------------------------------------------------------------
(* The transport and the server behind it *)

\* identifiers the server gives to created objects
ObjectIds == {"ob1", "ob2"}

\* an answer of the transport: it raised, or returned (response metadata, decoded body)
NoMeta == <<>>
TransportError == [ok |-> FALSE, meta |-> NoMeta, body |-> None]
Answer(meta, body) == [ok |-> TRUE, meta |-> meta, body |-> body]

\* response metadata of a successful POST: it carries the new object's identifier
PostResponse(oid) == [h \in {"x-object-id"} |-> oid]

\* the decoded body of a GET or PUT answer: the object the server holds at uri
Payload(uri, data) == [kind |-> "payload", uri |-> uri, data |-> data]

\* JSON values of a listed collection: {} and null are falsy
Items == {Dict(0), None, DictOf("a", 2), DictOf("b", 1)}
Lists == UNION { [1..n -> Items] : n \in 0..MaxListLen }

\* the shapes of a list response
EnvelopeForms == {"bare", "values", "values_metadata"}
Forms == EnvelopeForms \cup {"empty_object", "error_object"}

ListResponse(form, L) ==
    CASE form = "bare" -> ListBody(L)
      [] form = "values" -> DictBody(<<[k |-> "values", v |-> ListBody(L)]>>)
      [] form = "values_metadata" ->
            DictBody(<<[k |-> "values", v |-> ListBody(L)],
                       [k |-> "metadata", v |-> DictBody(<<>>)]>>)
      [] form = "empty_object" -> DictBody(<<>>)
      [] form = "error_object" ->
            DictBody(<<[k |-> "error", v |-> ListBody(<<>>)],
                       [k |-> "", v |-> ListBody(<<>>)]>>)

\* no body builder has run
NotBuilt == [err |-> "", body |-> <<>>]

Unfixed == [known |-> FALSE, items |-> <<>>]
NothingListed == [f \in EnvelopeForms |-> NoValue]

ListUris == {<<"entities", "en1", "checks">>, <<"notification_plans">>}
GetUris == {<<"entities", "en1", "checks", "ch1">>, <<"notification_plans", "np1">>}
Filters == {None, Dict(0), Dict(1)}

----------------------------------------------------------------------------
(* Actions *)

Init ==
    /\ pc = "idle"
    /\ op = [name |-> "", args |-> <<>>, uri |-> <<>>]
    /\ log = <<>>
    /\ replies = <<>>
    /\ built = NotBuilt
    /\ created = {}
    /\ outcome = Running
    /\ serverItems = Unfixed
    /\ listed = NothingListed

\* the caller invokes operation name
Begin(name, a, uri) ==
    /\ op' = [name |-> name, args |-> a, uri |-> uri]
    /\ replies' = <<>>
    /\ created' = {}

\* the operation raises before any request
Reject(e) ==
    /\ pc' = "done"
    /\ log' = <<>>
    /\ outcome' = Raised(e)

\* the operation hands its first request to the transport and waits
Hand(req, stage) ==
    /\ pc' = stage
    /\ log' = <<req>>
    /\ outcome' = Running

ForgetListing ==
    /\ serverItems' = Unfixed
    /\ listed' = NothingListed

\* b is what the body builder gave and v what the operation passes on: with a
\* body, _create(uri, body) begins with its POST
StartCreate(b, v, uri) ==
    /\ built' = b
    /\ IF v.err # "" THEN Reject(v.err) ELSE Hand(_create_post(uri, v.body), "post")

Create ==
    /\ pc = "idle"
    /\ \E a \in CreateCalls :
        /\ Begin("create", a, <<"entities">>)
        /\ LET b == create(a.label, a.agent_id, a.ip_addresses, a.metadata)
           IN  StartCreate(b, b, <<"entities">>)
        /\ ForgetListing

CreateCheck ==
    /\ pc = "idle"
    /\ \E a \in CreateCheckCalls :
        /\ Begin("create_check", a, <<"entities", "en1", "checks">>)
        /\ LET b == create_check(a)
           IN  StartCreate(b, b, <<"entities", "en1", "checks">>)
        /\ ForgetListing

CreateAlarm ==
    /\ pc = "idle"
    /\ \E a \in CreateAlarmCalls :
        /\ Begin("create_alarm", a, <<"entities", "en1", "alarms">>)
        /\ LET b == create_alarm(a)
           IN  StartCreate(b, UndefinedNames(b), <<"entities", "en1", "alarms">>)
        /\ ForgetListing

CreateNotificationPlan ==
    /\ pc = "idle"
    /\ \E a \in CreateNotificationPlanCalls :
        /\ Begin("create_notification_plan", a, <<"notification_plans">>)
        /\ LET b == create_notification_plan(a)
           IN  StartCreate(b, UndefinedNames(b), <<"notification_plans">>)
        /\ ForgetListing

CreateNotification ==
    /\ pc = "idle"
    /\ \E a \in CreateNotificationCalls :
        /\ Begin("create_notification", a, <<"notifications">>)
        /\ LET b == create_notification(a.details, a.label, a.notification_type,
                                         a.return_none, a.return_raw)
           IN  StartCreate(b, UndefinedNames(b), <<"notifications">>)
        /\ ForgetListing

CreateAgentToken ==
    /\ pc = "idle"
    /\ \E a \in CreateAgentTokenCalls :
        /\ Begin("create_agent_token", a, <<"agent_tokens">>)
        /\ LET b == create_agent_token(a.label, a.return_none, a.return_raw)
           IN  StartCreate(b, UndefinedNames(b), <<"agent_tokens">>)
        /\ ForgetListing

\* CloudMonitoringEntity.update
EntityUpdate ==
    /\ pc = "idle"
    /\ \E a \in UpdateEntityCalls :
        /\ Begin("Entity.update", a, <<>>)
        /\ built' = NotBuilt
        /\ Hand(Entity_update(Entity(a.managed), a.label, a.agent_id, a.ip_addresses,
                              a.metadata), "put")
        /\ ForgetListing

\* CloudMonitoringManager.update_entity
UpdateEntity ==
    /\ pc = "idle"
    /\ \E a \in UpdateEntityCalls :
        /\ Begin("update_entity", a, <<>>)
        /\ built' = NotBuilt
        /\ Hand(update_entity(Entity(a.managed), a.label, a.agent_id, a.ip_addresses,
                              a.metadata), "put")
        /\ ForgetListing

UpdateCheck ==
    /\ pc = "idle"
    /\ \E a \in UpdateCheckCalls :
        /\ Begin("update_check", a, <<>>)
        /\ built' = NotBuilt
        /\ Hand(update_check(Entity(PyTrue), Check(a.check_remote), a), "put")
        /\ ForgetListing

\* list_checks, list_alarms, list_notification_plan: _list(uri); _list(uri, body=...)
ListCall ==
    /\ pc = "idle" \/ (pc = "done" /\ op.name = "_list")
    /\ \E uri \in ListUris, body \in Filters :
        /\ Begin("_list", [body |-> body], uri)
        /\ built' = NotBuilt
        /\ Hand(_list_request(uri, body), "list")
        /\ UNCHANGED <<serverItems, listed>>

\* get_check, get_alarm, get_notification_plan: _get(uri)
GetCall ==
    /\ pc = "idle"
    /\ \E uri \in GetUris :
        /\ Begin("_get", <<>>, uri)
        /\ built' = NotBuilt
        /\ Hand(Request("GET", uri, None), "fetch")
        /\ ForgetListing

\* the transport raises: the exception reaches the caller unchanged
TransportRaises ==
    /\ pc \in {"post", "get", "put", "list", "fetch"}
    /\ pc' = "done"
    /\ replies' = Append(replies, TransportError)
    /\ outcome' = Raised("TransportError")
    /\ UNCHANGED <<op, log, built, created, serverItems, listed>>

\* _create: the POST returns; the server has created the object; the GET follows
PostReturns ==
    /\ pc = "post"
    /\ \E oid \in ObjectIds :
        /\ replies' = Append(replies, Answer(PostResponse(oid), None))
        /\ created' = created \cup {Join(log[Len(log)].uri, oid)}
        /\ log' = Append(log, _create_get(op.uri, PostResponse(oid)))
    /\ pc' = "get"
    /\ UNCHANGED <<op, built, outcome, serverItems, listed>>

\* _create: the GET returns the created object
GetReturns ==
    /\ pc = "get"
    /\ pc' = "done"
    /\ replies' = Append(replies, Answer(NoMeta, Payload(log[Len(log)].uri,
                                                         log[1].body)))
    /\ outcome' = Returned(_create_result(op.args.return_none, op.args.return_raw,
                                          Payload(log[Len(log)].uri, log[1].body)))
    /\ UNCHANGED <<op, log, built, created, serverItems, listed>>

\* update_entity, update_check: the PUT returns; its decoded body is returned
PutReturns ==
    /\ pc = "put"
    /\ pc' = "done"
    /\ replies' = Append(replies, Answer(NoMeta, Payload(log[1].uri, log[1].body)))
    /\ outcome' = Returned(Raw(Payload(log[1].uri, log[1].body)))
    /\ UNCHANGED <<op, log, built, created, serverItems, listed>>

\* _list: the request returns the collection in one of its shapes
ListReturns ==
    /\ pc = "list"
    /\ \E L \in Lists, form \in Forms :
        /\ serverItems.known => L = serverItems.items
        /\ serverItems' = [known |-> TRUE, items |-> L]
        /\ replies' = Append(replies, Answer(NoMeta, ListResponse(form, L)))
        /\ outcome' = _list(ListResponse(form, L))
        /\ listed' = IF form \in EnvelopeForms
                     THEN [listed EXCEPT ![form] = _list(ListResponse(form, L)).value]
                     ELSE listed
    /\ pc' = "done"
    /\ UNCHANGED <<op, log, built, created>>

\* _get: the GET returns the object
FetchReturns ==
    /\ pc = "fetch"
    /\ pc' = "done"
    /\ replies' = Append(replies, Answer(NoMeta, Payload(log[1].uri, None)))
    /\ outcome' = Returned(_get(Payload(log[1].uri, None)))
    /\ UNCHANGED <<op, log, built, created, serverItems, listed>>

\* the caller takes the outcome; the next call starts afresh
Return ==
    /\ pc = "done"
    /\ pc' = "idle"
    /\ op' = [name |-> "", args |-> <<>>, uri |-> <<>>]
    /\ log' = <<>>
    /\ replies' = <<>>
    /\ built' = NotBuilt
    /\ created' = {}
    /\ outcome' = Running
    /\ ForgetListing

Next ==
    \/ Create
    \/ CreateCheck
    \/ CreateAlarm
    \/ CreateNotificationPlan
    \/ CreateNotification
    \/ CreateAgentToken
    \/ EntityUpdate
    \/ UpdateEntity
    \/ UpdateCheck
    \/ ListCall
    \/ GetCall
    \/ TransportRaises
    \/ PostReturns
    \/ GetReturns
    \/ PutReturns
    \/ ListReturns
    \/ FetchReturns
    \/ Return

Spec == Init /\ [][Next]_vars

----------------------------------------------------------------------------
(* Properties *)

\* the operations that go through _create
CreateOps ==
    {"create", "create_check", "create_alarm", "create_notification_plan",
     "create_notification", "create_agent_token"}

InRange(v, lo, hi) == lo <= v.n /\ v.n <= hi

\* the data-model constraint on field k of a request body; a period or timeout is
\* judged when it is an integer
FieldValid(k, v) ==
    CASE k = "label" -> v.kind = "str" /\ InRange(v, LabelMin, LabelMax)
      [] k = "metadata" -> v.kind = "dict" /\ v.n <= MetadataMax
      [] k = "ip_addresses" -> v.kind = "dict" /\ v.n <= IpAddressesMax
      [] k = "period" -> v.kind = "int" => InRange(v, PeriodMin, PeriodMax)
      [] k = "timeout" -> v.kind = "int" => InRange(v, TimeoutMin, TimeoutMax)
      [] k \in {"agent_id", "id"} -> v = None \/ (v.kind = "str" /\ AgentIdMatches(v))
      [] OTHER -> TRUE

BodyValid(b) == \A k \in DOMAIN b : FieldValid(k, b[k])

\* C1: validation happens before any network call, for every create and update
\* operation: every body handed to method_post or method_put satisfies the
\* data-model constraints (label 1-255, metadata <= 256, ip_addresses <= 64,
\* period in [30,1800], timeout in [2,1800], agent_id pattern).
C1_ValidatedBeforeTransport ==
    \A i \in 1..Len(log) :
        log[i].method \in {"POST", "PUT"} => BodyValid(log[i].body)

\* C2: within one _create call the transport sees at most one POST, to the
\* collection uri, then at most one GET; the GET is issued only once the POST has
\* returned and targets "<uri>/<x-object-id>" with the identifier of the POST's
\* response metadata; a POST that raised is followed by no GET; a call that
\* returned has issued exactly the POST and then the GET.
C2_PostThenGet ==
    op.name \in CreateOps =>
        /\ Len(log) <= 2
        /\ Len(log) >= 1 => log[1] = Request("POST", op.uri, built.body)
        /\ Len(log) = 2 =>
            /\ Len(replies) >= 1
            /\ replies[1].ok
            /\ log[2] = Request("GET", Join(op.uri, replies[1].meta["x-object-id"]), None)
        /\ (Len(replies) >= 1 /\ ~replies[1].ok) => Len(log) = 1
        /\ outcome.status = "returned" => Len(log) = 2 /\ Len(replies) = 2

\* C2 witness: a create call returned after its POST and its GET
C2_Witness ==
    /\ op.name \in CreateOps
    /\ outcome.status = "returned"
    /\ Len(log) = 2
    /\ log[2].uri = Join(op.uri, "ob2")

\* C3 (as claimed): a create call has no partial-failure outcome: the caller never
\* gets an error while the object was created on the server.
C3_NoPartialFailure ==
    op.name \in CreateOps => ~(outcome.status = "raised" /\ created # {})

\* C3 (amended): a create call that returned has created exactly the object it
\* fetched; a create call that raised has created nothing unless its POST returned
\* and the failure is the follow-up GET's: then the caller has the transport's
\* error and the object exists on the server.
C3_PartialFailureOnlyByGet ==
    (op.name \in CreateOps /\ pc = "done") =>
        /\ outcome.status = "returned" =>
            /\ created = {log[2].uri}
            /\ replies[2].body = Payload(Join(op.uri, replies[1].meta["x-object-id"]),
                                         built.body)
        /\ (outcome.status = "raised" /\ created # {}) =>
            /\ outcome.err = "TransportError"
            /\ Len(replies) = 2 /\ replies[1].ok /\ ~replies[2].ok
        /\ (outcome.status = "raised" /\ Len(replies) <= 1) => created = {}

\* C3 witness: the POST created the object and the follow-up GET raised
C3_Witness ==
    /\ op.name \in CreateOps
    /\ pc = "done"
    /\ outcome = Raised("TransportError")
    /\ created # {}
    /\ Len(replies) = 2

\* the base call of the running operation
BaseOf(name) ==
    CASE name = "create" -> CreateBase
      [] name = "create_check" -> CreateCheckBase
      [] name = "create_alarm" -> CreateAlarmBase
      [] name = "create_notification_plan" -> CreateNotificationPlanBase
      [] name = "create_notification" -> CreateNotificationBase
      [] name = "create_agent_token" -> CreateAgentTokenBase
      [] name \in {"Entity.update", "update_entity"} -> UpdateEntityBase
      [] name = "update_check" -> UpdateCheckBase

\* the running call departs from its base call in the arguments names, at most:
\* every other argument is valid
Only(names) ==
    \A m \in DOMAIN BaseOf(op.name) \ names : op.args[m] = BaseOf(op.name)[m]

\* C4 (as claimed): for every integer period and timeout, all other fields valid,
\* _create_check_body accepts exactly when period is in [30,1800] and timeout in
\* [2,1800], the body carrying both unchanged, and otherwise raises InvalidRange.
C4_PeriodTimeoutRange ==
    (/\ op.name = "create_check"
     /\ Only({"period", "timeout"})
     /\ op.args.period.kind = "int"
     /\ op.args.timeout.kind = "int") =>
        IF /\ InRange(op.args.period, PeriodMin, PeriodMax)
           /\ InRange(op.args.timeout, TimeoutMin, TimeoutMax)
        THEN /\ built.err = ""
             /\ built.body.period = op.args.period
             /\ built.body.timeout = op.args.timeout
        ELSE built.err = "InvalidRange"

\* the body builders that test the label
LabelOps ==
    {"create", "create_check", "create_alarm", "create_notification_plan",
     "create_notification"}

\* C5 (as claimed): each body builder (entity, check, alarm, notification plan,
\* notification) accepts exactly when the label's length is in [1,255]: no body it
\* returns has a label of length 0 or above 255, also when the label is omitted,
\* and a call whose other fields are valid is accepted when the label is.
C5_LabelLength ==
    op.name \in LabelOps =>
        /\ (built # NotBuilt /\ built.err = "") =>
            /\ built.body.label.kind = "str"
            /\ InRange(built.body.label, LabelMin, LabelMax)
        /\ (/\ Only({"label"})
            /\ op.args.label.kind = "str"
            /\ InRange(op.args.label, LabelMin, LabelMax)) => built.err = ""

\* C6 (as claimed): _create_notification_body, with valid details and label,
\* accepts exactly when notification_type is "webhook" or "email", the body's
\* "type" being that value, and otherwise raises InvalidNotificationType.
C6_NotificationType ==
    (op.name = "create_notification" /\ Only({"notification_type"})) =>
        IF op.args.notification_type \in {StrOf("webhook", 7), StrOf("email", 5)}
        THEN built.err = "" /\ built.body.type = op.args.notification_type
        ELSE built.err = "InvalidNotificationType"

\* the number of truthy entries of a list
TruthyCount(L) == Cardinality({i \in 1..Len(L) : Truthy(L[i])})

\* C7: _list returns the same resources for {"values": L} as for the bare list L;
\* every resource is flagged loaded=False and built from a truthy entry of L, one
\* per truthy entry; a mapping without the "values" key raises nothing.
C7_EnvelopeUnwrap ==
    /\ \A f, g \in EnvelopeForms :
        (listed[f] # NoValue /\ listed[g] # NoValue) => listed[f] = listed[g]
    /\ \A f \in EnvelopeForms :
        listed[f] # NoValue =>
            /\ Len(listed[f].items) = TruthyCount(serverItems.items)
            /\ \A i \in 1..Len(listed[f].items) :
                /\ listed[f].items[i].loaded = "False"
                /\ Truthy(listed[f].items[i].info)
                /\ \E j \in 1..Len(serverItems.items) :
                    serverItems.items[j] = listed[f].items[i].info
    /\ (op.name = "_list" /\ pc = "done" /\ replies[1].ok) =>
        /\ outcome.status = "returned"
        /\ \A i \in 1..Len(outcome.value.items) :
            outcome.value.items[i].loaded = "False"

\* C7 witness: the same list with a falsy and a truthy entry was listed bare and
\* in the envelope, and then answered by a mapping without "values"
C7_Witness ==
    /\ listed["bare"] # NoValue
    /\ listed["values"] # NoValue
    /\ serverItems.items = <<Dict(0), DictOf("a", 2)>>
    /\ op.name = "_list"
    /\ pc = "done"
    /\ replies[1].ok
    /\ replies[1].body.kind = "dict"
    /\ ~HasKey(replies[1].body, "values")
    /\ Len(replies[1].body.pairs) > 0

\* C8: Entity.update on an entity whose managed is not False puts the entity's
\* current label and ip_addresses in the PUT body whatever was supplied, and the
\* supplied metadata and agent_id; with managed False every supplied field is in
\* the body.
C8_ManagedEntityUpdate ==
    (op.name = "Entity.update" /\ pc # "idle") =>
        /\ Len(log) = 1
        /\ log[1].method = "PUT"
        /\ op.args.metadata # None => log[1].body.metadata = op.args.metadata
        /\ op.args.agent_id # None => log[1].body.agent_id = op.args.agent_id
        /\ op.args.managed # PyFalse =>
            /\ log[1].body.label = Entity(op.args.managed).label
            /\ log[1].body.ip_addresses = Entity(op.args.managed).ip_addresses
        /\ op.args.managed = PyFalse =>
            /\ op.args.label # None => log[1].body.label = op.args.label
            /\ op.args.ip_addresses # None =>
                log[1].body.ip_addresses = op.args.ip_addresses

\* C8 witness: a managed entity updated with a label and metadata supplied
C8_Witness ==
    /\ op.name = "Entity.update"
    /\ pc = "put"
    /\ op.args.managed = PyTrue
    /\ op.args.label = Str(LabelMax)
    /\ op.args.metadata = Dict(0)

\* C9 (as claimed): a validation failure raises the error of its class: a length
\* or entry count out of bounds InvalidSize, a period or timeout out of bounds
\* InvalidRange, an agent_id that does not match InvalidAgentID, a bad
\* notification type InvalidNotificationType.
C9_ErrorKinds ==
    /\ (/\ op.name \in LabelOps /\ Only({"label"}) /\ op.args.label.kind = "str"
        /\ ~InRange(op.args.label, LabelMin, LabelMax)) => built.err = "InvalidSize"
    /\ (/\ op.name = "create_check" /\ Only({"check_type"})
        /\ ~InRange(op.args.check_type, CheckTypeMin, CheckTypeMax)) =>
            built.err = "InvalidSize"
    /\ (/\ op.name = "create_alarm" /\ Only({"criteria"}) /\ op.args.criteria # None
        /\ ~InRange(op.args.criteria, CriteriaMin, CriteriaMax)) =>
            built.err = "InvalidSize"
    /\ (/\ op.name = "create_check" /\ Only({"remote", "target_alias"})
        /\ op.args.remote = PyTrue /\ op.args.target_alias # None
        /\ ~InRange(op.args.target_alias, TargetAliasMin, TargetAliasMax)) =>
            built.err = "InvalidSize"
    /\ (/\ op.name = "create_check" /\ Only({"remote", "target_hostname"})
        /\ op.args.remote = PyTrue /\ op.args.target_hostname # None
        /\ ~InRange(op.args.target_hostname, TargetHostnameMin, TargetHostnameMax)) =>
            built.err = "InvalidSize"
    /\ (/\ op.name = "create" /\ Only({"ip_addresses"})
        /\ op.args.ip_addresses.n > IpAddressesMax) => built.err = "InvalidSize"
    /\ (/\ op.name \in {"create", "create_check", "create_alarm"} /\ Only({"metadata"})
        /\ op.args.metadata.n > MetadataMax) => built.err = "InvalidSize"
    /\ (/\ op.name \in {"create_check", "create_notification"} /\ Only({"details"})
        /\ op.args.details.n > DetailsMax) => built.err = "InvalidSize"
    /\ (/\ op.name = "create_check" /\ Only({"period"}) /\ op.args.period.kind = "int"
        /\ ~InRange(op.args.period, PeriodMin, PeriodMax)) => built.err = "InvalidRange"
    /\ (/\ op.name = "create_check" /\ Only({"timeout"}) /\ op.args.timeout.kind = "int"
        /\ ~InRange(op.args.timeout, TimeoutMin, TimeoutMax)) =>
            built.err = "InvalidRange"
    /\ (/\ op.name = "create" /\ Only({"agent_id"}) /\ op.args.agent_id # None
        /\ ~AgentIdMatches(op.args.agent_id)) => built.err = "InvalidAgentID"
    /\ (/\ op.name = "create_notification" /\ Only({"notification_type"})
        /\ op.args.notification_type \notin {StrOf("webhook", 7), StrOf("email", 5)}) =>
            built.err = "InvalidNotificationType"

\* the fields of a check, by the argument of update_check that sets them
CheckFields ==
    {"check_type", "label", "details", "disabled", "metadata", "period", "timeout",
     "monitoring_zones_poll", "target_alias", "target_hostname", "target_resolver"}
\* the key of the request body that carries the argument
BodyKey(k) == IF k = "check_type" THEN "type" ELSE k

\* C10 (as claimed): update_entity and update_check send one PUT whose body holds
\* every field of the resource: the supplied value where the caller supplied
\* one, the resource's current value otherwise (for update_check also disabled,
\* metadata and the target_* fields).
C10_FullReplacementBody ==
    (op.name \in {"update_entity", "update_check"} /\ pc # "idle") =>
        /\ Len(log) = 1
        /\ log[1].method = "PUT"
        /\ op.name = "update_entity" =>
            \A k \in {"label", "agent_id", "ip_addresses", "metadata"} :
                /\ k \in DOMAIN log[1].body
                /\ log[1].body[k] = IF op.args[k] # None THEN op.args[k]
                                    ELSE Entity(op.args.managed)[k]
        /\ op.name = "update_check" =>
            \A k \in CheckFields :
                /\ BodyKey(k) \in DOMAIN log[1].body
                /\ log[1].body[BodyKey(k)] = IF op.args[k] # None THEN op.args[k]
                                             ELSE Check(op.args.check_remote)[k]

\* the create operations of the manager that take the two return modes
ModeOps ==
    {"create_check", "create_alarm", "create_notification_plan",
     "create_notification", "create_agent_token"}

\* the caller passed the flag and it is true
Flag(v) == v # Absent /\ Truthy(v)

\* C11 (as claimed): a create operation of the manager called with valid arguments
\* (the base call, with return_none / return_raw as the caller likes) and answered
\* by the transport issues the POST and then the GET, and returns nothing with
\* return_none, the raw payload of the GET with return_raw, and otherwise a
\* resource built from that payload.
C11_ReturnModes ==
    (/\ op.name \in ModeOps
     /\ Only({"return_none", "return_raw"})
     /\ pc = "done"
     /\ \A i \in 1..Len(replies) : replies[i].ok) =>
        /\ Len(log) = 2
        /\ log[1].method = "POST"
        /\ log[2].method = "GET"
        /\ Len(replies) = 2
        /\ outcome.status = "returned"
        /\ IF Flag(op.args.return_none) THEN outcome.value = RetNone
           ELSE IF Flag(op.args.return_raw) THEN outcome.value = Raw(replies[2].body)
           ELSE /\ outcome.value.kind = "resource"
                /\ outcome.value.info = replies[2].body

\* the arguments of _create_check_body that the two variants differ in
TargetArgs == {"remote", "target_alias", "target_hostname", "target_resolver"}

\* the keys of a check body that only the remote variant carries
RemoteOnlyKeys == {"target_hostname", "target_resolver"}

\* C12 (as claimed): in _create_check_body, all other fields valid, a remote check
\* (remote is True) is accepted only when target_alias has length 1-64 and
\* target_hostname has length 1-256, and its body carries target_alias,
\* target_hostname and target_resolver as supplied; a check that is not remote is
\* always accepted, with target_alias "default" and neither target_hostname nor
\* target_resolver in the body, whatever target values the caller supplied.
C12_RemoteLocalVariants ==
    (op.name = "create_check" /\ Only(TargetArgs)) =>
        IF op.args.remote = PyTrue
        THEN built.err = "" =>
                /\ op.args.target_alias.kind = "str"
                /\ InRange(op.args.target_alias, TargetAliasMin, TargetAliasMax)
                /\ op.args.target_hostname.kind = "str"
                /\ InRange(op.args.target_hostname, TargetHostnameMin,
                           TargetHostnameMax)
                /\ {"target_alias"} \cup RemoteOnlyKeys \subseteq DOMAIN built.body
                /\ built.body.target_alias = op.args.target_alias
                /\ built.body.target_hostname = op.args.target_hostname
        ELSE /\ built.err = ""
             /\ built.body.target_alias = StrOf("default", 7)
             /\ RemoteOnlyKeys \cap DOMAIN built.body = {}

====
